---- MODULE Spec2Model ----
(***************************************************************************)
(* A model of compressor/Main.py: the Huffman file compressor.             *)
(*                                                                         *)
(* Text is a sequence of symbols (one-character strings), a bit string is  *)
(* a sequence of 0/1, a bytearray is a sequence of 0..255.  A Python dict  *)
(* is a sequence of <<key, value>> pairs in insertion order (dicts keep    *)
(* insertion order, and _build_heap iterates the frequency dict in it).    *)
(* An optional reference (a node or None, a file or no file) is a sequence *)
(* of length 0 or 1.  A HuffmanNode is the tuple of its four attributes    *)
(* and a file the tuple of its parts, each read through a named accessor.  *)
(***************************************************************************)
EXTENDS Integers, Sequences, FiniteSets, TLC

VARIABLES
    heap,                 \* self.heap
    codes,                \* self.codes
    reverse_mapping,      \* self.reverse_mapping
    frequency,            \* local `frequency` of the last call
    encoded_text,         \* local `encoded_text` of compress_file
    padded_encoded_text,  \* local `padded_encoded_text` of compress_file
    byte_array,           \* local `byte_array` of the last call
    unpadded,             \* local `encoded_text` of decompress_file (line 196)
    decompressed_text,    \* local `decompressed_text`, <<>> when not reached
    source,               \* content of the text file given to compress_file
    container,            \* the .huffman file: <<>> or <<ContainerFile(...)>>
    output,               \* the .decompressed file: <<>> or <<text>>
    op,                   \* the step taken last
    result,               \* how the last call ended
    flipped               \* index of the payload bit corrupted, or -1

vars == <<heap, codes, reverse_mapping, frequency, encoded_text,
          padded_encoded_text, byte_array, unpadded, decompressed_text,
          source, container, output, op, result, flipped>>

----------------------------------------------------------------------------
(* Bounds of the model *)

MaxLen == 4        \* longest text of the one-session specification
MaxCallLen == 3    \* longest text of the many-calls specification
MaxSyms == 4       \* most symbols of an enumerated frequency table
MaxFreq == 4       \* largest count of an enumerated frequency table
MaxBits == 10      \* longest bit stream given to the padding step

Symbols == <<"a", "b", "c", "d", "e", "f">>
TextAlphabet == {"a", "b", "c", "d"}   \* the symbols of a session's text
CallAlphabet == {"a", "b", "c"}        \* the symbols of the texts of repeated calls
None == "None"

\* The reference distribution of the optimality property.
ReferenceTable ==
    << <<"a", 5>>, <<"b", 9>>, <<"c", 12>>, <<"d", 13>>, <<"e", 16>>, <<"f", 45>> >>

----------------------------------------------------------------------------
(* Python dict, insertion ordered *)

DictKeys(d) == {d[i][1] : i \in DOMAIN d}

DictHas(d, k) == \E i \in DOMAIN d : d[i][1] = k

DictGet(d, k) == d[CHOOSE i \in DOMAIN d : d[i][1] = k][2]

DictSet(d, k, v) ==
    IF DictHas(d, k)
    THEN [d EXCEPT ![CHOOSE i \in DOMAIN d : d[i][1] = k] = <<k, v>>]
    ELSE Append(d, <<k, v>>)

----------------------------------------------------------------------------
(* HuffmanNode *)

\* HuffmanNode(char, freq): left and right start as None
HuffmanNode(char, freq) == <<char, freq, <<>>, <<>>>>

NodeChar(node) == node[1]
NodeFreq(node) == node[2]
NodeLeft(node) == node[3]
NodeRight(node) == node[4]

\* merged = HuffmanNode(None, freq); merged.left = node1; merged.right = node2
MergedNode(node1, node2) ==
    <<None, NodeFreq(node1) + NodeFreq(node2), <<node1>>, <<node2>>>>

NodeLtReversed(self, other) == NodeFreq(self) > NodeFreq(other)

\* __lt__
NodeLt(self, other) == NodeFreq(self) < NodeFreq(other)

----------------------------------------------------------------------------
(* heapq on a list; positions are 0-based as in heapq, heap[pos + 1] here *)

RECURSIVE SiftDown(_, _, _, _)
SiftDown(h, newitem, startpos, pos) ==
    IF pos > startpos
    THEN LET parentpos == (pos - 1) \div 2
             parent == h[parentpos + 1]
         IN  IF NodeLt(newitem, parent)
             THEN SiftDown([h EXCEPT ![pos + 1] = parent], newitem, startpos, parentpos)
             ELSE [h EXCEPT ![pos + 1] = newitem]
    ELSE [h EXCEPT ![pos + 1] = newitem]

RECURSIVE SiftUpLoop(_, _, _)
\* the while loop of heapq._siftup: bubble the smaller child up until a leaf
SiftUpLoop(h, pos, endpos) ==
    LET childpos == 2 * pos + 1
        rightpos == childpos + 1
        pick == IF rightpos < endpos /\ ~NodeLt(h[childpos + 1], h[rightpos + 1])
                THEN rightpos ELSE childpos
    IN  IF childpos < endpos
        THEN SiftUpLoop([h EXCEPT ![pos + 1] = h[pick + 1]], pick, endpos)
        ELSE [h |-> h, pos |-> pos]

SiftUp(h, pos) ==
    LET newitem == h[pos + 1]
        r == SiftUpLoop(h, pos, Len(h))
    IN  SiftDown(r.h, newitem, pos, r.pos)

HeapPush(h, item) == SiftDown(Append(h, item), item, 0, Len(h))

\* heappop on a non-empty heap: the popped item and the heap left
HeapPop(h) ==
    LET lastelt == h[Len(h)]
        rest == SubSeq(h, 1, Len(h) - 1)
    IN  IF Len(rest) > 0
        THEN [heap |-> SiftUp([rest EXCEPT ![1] = lastelt], 0), item |-> rest[1]]
        ELSE [heap |-> rest, item |-> lastelt]

----------------------------------------------------------------------------
(* The stages of the pipeline *)

RECURSIVE MakeFrequencyDict(_)
MakeFrequencyDict(text) ==
    IF text = <<>> THEN <<>>
    ELSE LET f == MakeFrequencyDict(SubSeq(text, 1, Len(text) - 1))
             character == text[Len(text)]
         IN  DictSet(f, character, IF DictHas(f, character) THEN DictGet(f, character) + 1 ELSE 1)

RECURSIVE BuildHeapFrom(_, _, _)
BuildHeapFrom(h, freq, i) ==
    IF i > Len(freq) THEN h
    ELSE BuildHeapFrom(HeapPush(h, HuffmanNode(freq[i][1], freq[i][2])), freq, i + 1)

BuildHeap(h, freq) == BuildHeapFrom(h, freq, 1)

RECURSIVE MergeNodes(_)
MergeNodes(h) ==
    IF Len(h) > 1
    THEN LET p1 == HeapPop(h)
             p2 == HeapPop(p1.heap)
             merged == MergedNode(p1.item, p2.item)
         IN  MergeNodes(HeapPush(p2.heap, merged))
    ELSE h

RECURSIVE MakeCodesSameBit(_, _, _)
MakeCodesSameBit(st, root, current_code) ==
    IF root = <<>> THEN st
    ELSE IF NodeChar(root[1]) # None
    THEN [codes |-> DictSet(st.codes, NodeChar(root[1]), current_code),
          reverse_mapping |-> DictSet(st.reverse_mapping, current_code, NodeChar(root[1]))]
    ELSE MakeCodesSameBit(MakeCodesSameBit(st, NodeLeft(root[1]), current_code \o <<0>>),
                          NodeRight(root[1]), current_code)

RECURSIVE MakeCodesHelper(_, _, _)
\* st is [codes, reverse_mapping]; root is <<>> (None) or <<node>>
MakeCodesHelper(st, root, current_code) ==
    IF root = <<>> THEN st
    ELSE IF NodeChar(root[1]) # None
    THEN [codes |-> DictSet(st.codes, NodeChar(root[1]), current_code),
          reverse_mapping |-> DictSet(st.reverse_mapping, current_code, NodeChar(root[1]))]
    ELSE MakeCodesHelper(MakeCodesHelper(st, NodeLeft(root[1]), current_code \o <<0>>),
                         NodeRight(root[1]), current_code \o <<1>>)

----------------------------------------------------------------------------
(* Bit strings, bytes, hash and JSON *)

RECURSIVE ToBinary(_)
\* format(n, "b")
ToBinary(n) == IF n < 2 THEN <<n>> ELSE ToBinary(n \div 2) \o <<n % 2>>

RECURSIVE Zeros(_)
Zeros(n) == IF n <= 0 THEN <<>> ELSE <<0>> \o Zeros(n - 1)

\* "{0:08b}".format(n): binary, zero-filled on the left to at least 8 digits
Format08b(n) == LET b == ToBinary(n) IN Zeros(8 - Len(b)) \o b

RECURSIVE ParseBinary(_)
\* int(s, 2) of a non-empty string of binary digits
ParseBinary(s) ==
    IF s = <<>> THEN 0
    ELSE 2 * ParseBinary(SubSeq(s, 1, Len(s) - 1)) + s[Len(s)]

SymIndex(c) == CHOOSE i \in DOMAIN Symbols : Symbols[i] = c

RECURSIVE Sha256(_)
\* hashlib.sha256(text.encode('utf-8')).hexdigest(), taken as collision-free:
\* the digest is the text read as a bijective base-(|Symbols|+1) numeral, so
\* two texts have the same digest only when they are the same text.
Sha256(text) ==
    IF text = <<>> THEN 0
    ELSE (Len(Symbols) + 1) * Sha256(SubSeq(text, 1, Len(text) - 1))
         + SymIndex(text[Len(text)])

DigitChars == <<"0", "1", "2", "3", "4", "5", "6", "7", "8", "9">>

RECURSIVE Decimal(_)
\* str(n) for n >= 0, one character per element
Decimal(n) ==
    IF n < 10 THEN <<DigitChars[n + 1]>> ELSE Decimal(n \div 10) \o <<DigitChars[(n % 10) + 1]>>

IsDigit(c) == \E i \in DOMAIN DigitChars : DigitChars[i] = c

DigitValue(c) == (CHOOSE i \in DOMAIN DigitChars : DigitChars[i] = c) - 1

RECURSIVE ParseDecimal(_)
ParseDecimal(s) ==
    IF s = <<>> THEN 0
    ELSE 10 * ParseDecimal(SubSeq(s, 1, Len(s) - 1)) + DigitValue(s[Len(s)])

RECURSIVE JsonMembers(_, _)
\* "k": v members joined by ", "
JsonMembers(d, i) ==
    IF i > Len(d) THEN <<>>
    ELSE (IF i > 1 THEN <<",", " ">> ELSE <<>>)
         \o <<"\"", d[i][1], "\"", ":", " ">> \o Decimal(d[i][2])
         \o JsonMembers(d, i + 1)

RECURSIVE SortedByKey(_, _)
SortedByKey(d, i) ==
    IF i > Len(Symbols) THEN <<>>
    ELSE (IF DictHas(d, Symbols[i]) THEN <<<<Symbols[i], DictGet(d, Symbols[i])>>>> ELSE <<>>)
         \o SortedByKey(d, i + 1)

JsonDumpsSortKeys(d) == <<"{">> \o JsonMembers(SortedByKey(d, 1), 1) \o <<"}">>

\* json.dumps(frequency): the text of the object, one character per element,
\* its members in the dict's order
JsonDumps(d) == <<"{">> \o JsonMembers(d, 1) \o <<"}">>

RECURSIVE NumberEnd(_, _)
\* the position after the digits that start at position i
NumberEnd(j, i) == IF i <= Len(j) /\ IsDigit(j[i]) THEN NumberEnd(j, i + 1) ELSE i

RECURSIVE ParseMembers(_, _, _)
\* position i is at a '"' that opens a name, at a ',' or at the closing '}'
ParseMembers(j, i, d) ==
    IF i > Len(j) \/ j[i] = "}" THEN d
    ELSE IF j[i] = "," THEN ParseMembers(j, i + 2, d)
    ELSE LET name == j[i + 1]
             first == i + 5
             last == NumberEnd(j, first)
         IN  ParseMembers(j, last, DictSet(d, name, ParseDecimal(SubSeq(j, first, last - 1))))

\* json.loads: the dict of the object's members in their order (a repeated
\* name keeps its first position and takes the last value)
JsonLoads(j) == ParseMembers(j, 2, <<>>)

RECURSIVE GetEncodedText(_, _)
GetEncodedText(cds, text) ==
    IF text = <<>> THEN <<>>
    ELSE GetEncodedText(cds, SubSeq(text, 1, Len(text) - 1)) \o DictGet(cds, text[Len(text)])

PadEncodedTextNoFullByte(encoded) ==
    LET extra_padding == (8 - (Len(encoded) % 8)) % 8
    IN  Format08b(extra_padding) \o encoded \o Zeros(extra_padding)

PadEncodedText(encoded) ==
    LET extra_padding == 8 - (Len(encoded) % 8)
    IN  Format08b(extra_padding) \o encoded \o Zeros(extra_padding)

RECURSIVE GetByteArray(_)
GetByteArray(padded) ==
    IF padded = <<>> THEN <<>>
    ELSE LET n == IF Len(padded) < 8 THEN Len(padded) ELSE 8
         IN  <<ParseBinary(SubSeq(padded, 1, n))>>
             \o GetByteArray(SubSeq(padded, n + 1, Len(padded)))

RECURSIVE BitString(_)
\* ''.join("{0:08b}".format(byte) for byte in byte_array)
BitString(bytes) ==
    IF bytes = <<>> THEN <<>>
    ELSE Format08b(bytes[1]) \o BitString(SubSeq(bytes, 2, Len(bytes)))

\* s[:-1 * n] for n >= 0: s[:0] is empty, and so is s[:-n] when n >= len(s)
DropLast(s, n) ==
    IF n = 0 \/ n >= Len(s) THEN <<>> ELSE SubSeq(s, 1, Len(s) - n)

RECURSIVE DecodeLoop(_, _, _, _, _)
\* root and current are <<>> (None) or <<node>>
DecodeLoop(bits, i, root, current, decoded) ==
    IF i > Len(bits) THEN [text |-> decoded, raised |-> FALSE]
    ELSE IF current = <<>> THEN [text |-> decoded, raised |-> TRUE]
    ELSE LET next == IF bits[i] = 0 THEN NodeLeft(current[1]) ELSE NodeRight(current[1])
         IN  IF next = <<>> THEN [text |-> decoded, raised |-> TRUE]
             ELSE IF NodeChar(next[1]) # None
             THEN DecodeLoop(bits, i + 1, root, root, Append(decoded, NodeChar(next[1])))
             ELSE DecodeLoop(bits, i + 1, root, next, decoded)

UnpadKeepPadding(bytes) ==
    LET bit_string == BitString(bytes)
    IN  [encoded_text |-> SubSeq(bit_string, 9, Len(bit_string)),
         raised |-> bit_string = <<>>]

\* "Convert bytes to bit string" and "Remove padding information"
Unpad(bytes) ==
    LET bit_string == BitString(bytes)
        extra_padding == ParseBinary(SubSeq(bit_string, 1, 8))
    IN  [encoded_text |-> DropLast(SubSeq(bit_string, 9, Len(bit_string)), extra_padding),
         raised |-> bit_string = <<>>]      \* int('', 2) raises ValueError

\* _decode_text; raised: None has no attribute 'left' / 'char'
DecodeText(encoded, root) == DecodeLoop(encoded, 1, root, root, <<>>)

----------------------------------------------------------------------------
(* compress_file and decompress_file *)

Unset == <<>>

\* the container file: the hash line, the frequency line, the payload bytes
ContainerFile(hash_line, freq_line, payload) == <<hash_line, freq_line, payload>>

HashLine(file) == file[1]
FreqLine(file) == file[2]
Payload(file) == file[3]

\* the instance attributes heap, codes, reverse_mapping
Instance(h, cds, rm) == <<h, cds, rm>>

HeapOf(self) == self[1]
CodesOf(self) == self[2]
ReverseMappingOf(self) == self[3]

\* __init__
FreshInstance == Instance(<<>>, <<>>, <<>>)

KeepState(self) == self

\* "Reset compression state" / "Reset decompression state"
ResetState(self) == Instance(<<>>, <<>>, <<>>)

NeverRaises(h) == FALSE

\* root = self.heap[0] raises IndexError on an empty list
RaisesIndexError(h) == Len(h) = 0

RootOf(h) == IF Len(h) = 0 THEN <<>> ELSE <<h[1]>>

AlwaysMatches(current_hash, file_hash) == TRUE

\* the integrity check passes unless current_hash != file_hash
HashMatches(current_hash, file_hash) == current_hash = file_hash

WriteBeforeVerify(old, text, verified) == <<text>>

\* the output file after the integrity check: written only past the raise
WriteOutput(old, text, verified) == IF verified THEN <<text>> ELSE old

CompressCall(self, text) ==
    LET file_hash == Sha256(text)
        st0 == ResetState(self)
        freq == MakeFrequencyDict(text)
        h == MergeNodes(BuildHeap(HeapOf(st0), freq))
        st == MakeCodesHelper([codes |-> CodesOf(st0), reverse_mapping |-> ReverseMappingOf(st0)],
                              RootOf(h), <<>>)
        encoded == GetEncodedText(st.codes, text)
        padded == PadEncodedText(encoded)
        bytes == GetByteArray(padded)
    IN  IF RaisesIndexError(h)
        THEN [heap |-> h, codes |-> CodesOf(st0), reverse_mapping |-> ReverseMappingOf(st0),
              frequency |-> freq, encoded_text |-> Unset, padded_encoded_text |-> Unset,
              byte_array |-> Unset, result |-> "IndexError", written |-> <<>>]
        ELSE [heap |-> h, codes |-> st.codes, reverse_mapping |-> st.reverse_mapping,
              frequency |-> freq, encoded_text |-> encoded, padded_encoded_text |-> padded,
              byte_array |-> bytes, result |-> "ok",
              written |-> <<ContainerFile(file_hash, JsonDumps(freq), bytes)>>]

DecompressCall(self, file, old_output) ==
    LET file_hash == HashLine(file)
        freq == JsonLoads(FreqLine(file))
        bytes == Payload(file)
        st0 == ResetState(self)
        h == MergeNodes(BuildHeap(HeapOf(st0), freq))
        st == MakeCodesHelper([codes |-> CodesOf(st0), reverse_mapping |-> ReverseMappingOf(st0)],
                              RootOf(h), <<>>)
        unpad == Unpad(bytes)
        encoded == unpad.encoded_text
        dec == DecodeText(encoded, RootOf(h))
        verified == HashMatches(Sha256(dec.text), file_hash)
        early == [heap |-> h, codes |-> CodesOf(st0), reverse_mapping |-> ReverseMappingOf(st0),
                  frequency |-> freq, byte_array |-> bytes, unpadded |-> Unset,
                  decompressed_text |-> Unset, output |-> old_output, result |-> "IndexError"]
        built == [early EXCEPT !.codes = st.codes, !.reverse_mapping = st.reverse_mapping]
    IN  IF RaisesIndexError(h) THEN early
        ELSE IF unpad.raised
        THEN [built EXCEPT !.result = "ValueError"]
        ELSE IF dec.raised
        THEN [built EXCEPT !.unpadded = encoded, !.result = "AttributeError"]
        ELSE [built EXCEPT !.unpadded = encoded, !.decompressed_text = <<dec.text>>,
                           !.result = IF verified THEN "ok" ELSE "IntegrityError",
                           !.output = WriteOutput(old_output, dec.text, verified)]

Self == Instance(heap, codes, reverse_mapping)

\* compress_file(path) on a text file holding `text`
CompressFile(text) ==
    \E r \in {CompressCall(Self, text)} :
        /\ heap' = r.heap
        /\ codes' = r.codes
        /\ reverse_mapping' = r.reverse_mapping
        /\ frequency' = r.frequency
        /\ encoded_text' = r.encoded_text
        /\ padded_encoded_text' = r.padded_encoded_text
        /\ byte_array' = r.byte_array
        /\ unpadded' = Unset
        /\ decompressed_text' = Unset
        /\ source' = text
        /\ container' = IF r.written = <<>> THEN container ELSE r.written
        /\ flipped' = IF r.written = <<>> THEN flipped ELSE -1
        /\ output' = output
        /\ op' = "compress"
        /\ result' = r.result

\* decompress_file(path) on the container file
DecompressFile ==
    /\ container # <<>>
    /\ \E r \in {DecompressCall(Self, container[1], output)} :
           /\ heap' = r.heap
           /\ codes' = r.codes
           /\ reverse_mapping' = r.reverse_mapping
           /\ frequency' = r.frequency
           /\ byte_array' = r.byte_array
           /\ unpadded' = r.unpadded
           /\ decompressed_text' = r.decompressed_text
           /\ output' = r.output
           /\ result' = r.result
    /\ encoded_text' = Unset
    /\ padded_encoded_text' = Unset
    /\ op' = "decompress"
    /\ UNCHANGED <<source, container, flipped>>

FlipAt(bits, i) == [bits EXCEPT ![i + 1] = 1 - bits[i + 1]]

\* one bit of the stored payload is inverted between the two calls
FlipBit(i) ==
    /\ op = "compress"
    /\ result = "ok"
    /\ flipped = -1
    /\ i \in 0 .. (8 * Len(Payload(container[1])) - 1)
    /\ container' = <<ContainerFile(HashLine(container[1]), FreqLine(container[1]),
                                    GetByteArray(FlipAt(BitString(Payload(container[1])), i)))>>
    /\ flipped' = i
    /\ op' = "flip"
    /\ UNCHANGED <<heap, codes, reverse_mapping, frequency, encoded_text,
                   padded_encoded_text, byte_array, unpadded, decompressed_text,
                   source, output, result>>

----------------------------------------------------------------------------
(* Specifications *)

Texts(alphabet, n) == UNION {[1 .. k -> alphabet] : k \in 0 .. n}

Init ==
    /\ heap = <<>>
    /\ codes = <<>>
    /\ reverse_mapping = <<>>
    /\ frequency = Unset
    /\ encoded_text = Unset
    /\ padded_encoded_text = Unset
    /\ byte_array = Unset
    /\ unpadded = Unset
    /\ decompressed_text = Unset
    /\ source = <<>>
    /\ container = <<>>
    /\ output = <<>>
    /\ op = "init"
    /\ result = "none"
    /\ flipped = -1

\* Any sequence of calls on one HuffmanCompressor instance.
AnyCompress == \E t \in Texts(CallAlphabet, MaxCallLen) : CompressFile(t)

AnyDecompress == DecompressFile

Next == AnyCompress \/ AnyDecompress

Spec == Init /\ [][Next]_vars

\* One session as in main(): compress a file, then decompress the container,
\* which may have had one payload bit inverted in between.
SessionCompress == op = "init" /\ \E t \in Texts(TextAlphabet, MaxLen) : CompressFile(t)

SessionFlip ==
    /\ container # <<>>
    /\ \E i \in 0 .. (8 * Len(Payload(container[1])) - 1) : FlipBit(i)

SessionDecompress == op \in {"compress", "flip"} /\ DecompressFile

NextSession == SessionCompress \/ SessionFlip \/ SessionDecompress

SpecSession == Init /\ [][NextSession]_vars

\* The tree and code stages on a frequency table, one method per step.
RECURSIVE FrequencyTableFrom(_, _)
FrequencyTableFrom(fs, i) ==
    IF i > Len(fs) THEN <<>>
    ELSE <<<<Symbols[i], fs[i]>>>> \o FrequencyTableFrom(fs, i + 1)

FrequencyTable(fs) == FrequencyTableFrom(fs, 1)

Tables ==
    {FrequencyTable(fs) : fs \in UNION {[1 .. k -> 1 .. MaxFreq] : k \in 1 .. MaxSyms}}
    \cup {ReferenceTable}

InitTable ==
    /\ frequency \in Tables
    /\ op = "table"
    /\ heap = <<>>
    /\ codes = <<>>
    /\ reverse_mapping = <<>>
    /\ encoded_text = Unset
    /\ padded_encoded_text = Unset
    /\ byte_array = Unset
    /\ unpadded = Unset
    /\ decompressed_text = Unset
    /\ source = <<>>
    /\ container = <<>>
    /\ output = <<>>
    /\ result = "none"
    /\ flipped = -1

TableBuildHeap ==
    /\ op = "table"
    /\ heap' = BuildHeap(heap, frequency)
    /\ op' = "build_heap"
    /\ UNCHANGED <<codes, reverse_mapping, frequency, encoded_text, padded_encoded_text,
                   byte_array, unpadded, decompressed_text, source, container, output,
                   result, flipped>>

TableMergeNodes ==
    /\ op = "build_heap"
    /\ heap' = MergeNodes(heap)
    /\ op' = "merge_nodes"
    /\ UNCHANGED <<codes, reverse_mapping, frequency, encoded_text, padded_encoded_text,
                   byte_array, unpadded, decompressed_text, source, container, output,
                   result, flipped>>

TableMakeCodes ==
    /\ op = "merge_nodes"
    /\ \E st \in {MakeCodesHelper([codes |-> codes, reverse_mapping |-> reverse_mapping],
                                  RootOf(heap), <<>>)} :
           /\ codes' = st.codes
           /\ reverse_mapping' = st.reverse_mapping
    /\ op' = "make_codes"
    /\ UNCHANGED <<heap, frequency, encoded_text, padded_encoded_text,
                   byte_array, unpadded, decompressed_text, source, container, output,
                   result, flipped>>

NextTable == TableBuildHeap \/ TableMergeNodes \/ TableMakeCodes

SpecTable == InitTable /\ [][NextTable]_vars

\* The padding, byte packing and unpadding steps on an encoded bit stream.
BitStreams == UNION {[1 .. k -> {0, 1}] : k \in 0 .. MaxBits}

InitPad ==
    /\ encoded_text \in BitStreams
    /\ op = "bits"
    /\ heap = <<>>
    /\ codes = <<>>
    /\ reverse_mapping = <<>>
    /\ frequency = Unset
    /\ padded_encoded_text = Unset
    /\ byte_array = Unset
    /\ unpadded = Unset
    /\ decompressed_text = Unset
    /\ source = <<>>
    /\ container = <<>>
    /\ output = <<>>
    /\ result = "none"
    /\ flipped = -1

PadStep ==
    /\ op = "bits"
    /\ padded_encoded_text' = PadEncodedText(encoded_text)
    /\ op' = "pad"
    /\ UNCHANGED <<heap, codes, reverse_mapping, frequency, encoded_text, byte_array,
                   unpadded, decompressed_text, source, container, output, result, flipped>>

ByteArrayStep ==
    /\ op = "pad"
    /\ byte_array' = GetByteArray(padded_encoded_text)
    /\ op' = "bytes"
    /\ UNCHANGED <<heap, codes, reverse_mapping, frequency, encoded_text,
                   padded_encoded_text, unpadded, decompressed_text, source, container,
                   output, result, flipped>>

UnpadStep ==
    /\ op = "bytes"
    /\ ~Unpad(byte_array).raised
    /\ unpadded' = Unpad(byte_array).encoded_text
    /\ op' = "unpad"
    /\ UNCHANGED <<heap, codes, reverse_mapping, frequency, encoded_text,
                   padded_encoded_text, byte_array, decompressed_text, source, container,
                   output, result, flipped>>

NextPad == PadStep \/ ByteArrayStep \/ UnpadStep

SpecPad == InitPad /\ [][NextPad]_vars

----------------------------------------------------------------------------
(* Properties *)

SymbolsOf(text) == {text[i] : i \in DOMAIN text}

IsPrefix(p, q) == Len(p) <= Len(q) /\ SubSeq(q, 1, Len(p)) = p

RECURSIVE SumOver(_, _)
\* the sum of the counts of the table entries with index in S
SumOver(freq, S) ==
    IF S = {} THEN 0
    ELSE LET i == CHOOSE x \in S : TRUE IN freq[i][2] + SumOver(freq, S \ {i})

Minimum(S) == CHOOSE c \in S : \A d \in S : c <= d

RECURSIVE OptimalCost(_, _)
\* The least sum of count * depth over all binary trees whose leaves are the
\* entries S of the table: a tree over two or more leaves splits them into
\* the leaves under its left and under its right child, and each leaf is
\* one level deeper than in its subtree.  No prefix-free code costs less.
OptimalCost(freq, S) ==
    IF Cardinality(S) <= 1 THEN 0
    ELSE LET m == CHOOSE x \in S : TRUE
             splits == {A \cup {m} : A \in (SUBSET (S \ {m})) \ {S \ {m}}}
         IN  SumOver(freq, S)
             + Minimum({OptimalCost(freq, L) + OptimalCost(freq, S \ L) : L \in splits})

RECURSIVE WeightedLength(_, _, _)
WeightedLength(freq, cds, i) ==
    IF i > Len(freq) THEN 0
    ELSE freq[i][2] * Len(DictGet(cds, freq[i][1])) + WeightedLength(freq, cds, i + 1)

\* C1: every text, the empty one and the one-symbol ones included, is
\* compressed without error, and decompressing the untouched container
\* completes and writes exactly that text.
C1_RoundTripEveryText ==
    /\ op = "compress" => result = "ok"
    /\ (op = "decompress" /\ flipped = -1) => (result = "ok" /\ output = <<source>>)

\* C2: for a text with at least two distinct symbols, decompressing the
\* untouched container decodes exactly the text, the recomputed hash equals
\* the stored one, and the text is written as output.
C2_RoundTripMultiSymbol ==
    (op = "decompress" /\ flipped = -1 /\ Cardinality(SymbolsOf(source)) >= 2)
        => /\ result = "ok"
           /\ decompressed_text = <<source>>
           /\ Sha256(decompressed_text[1]) = HashLine(container[1])
           /\ output = <<source>>

C2_Witness ==
    /\ op = "decompress"
    /\ flipped = -1
    /\ result = "ok"
    /\ Len(source) = 4
    /\ Len(frequency) = 3
    /\ output = <<source>>

C4_VerifiedWriteOnly ==
    [][op' = "decompress" =>
         /\ (decompressed_text' # <<>> /\ Sha256(decompressed_text'[1]) # HashLine(container[1]))
                => (result' = "IntegrityError" /\ output' = output)
         /\ output' # output
                => /\ result' = "ok"
                   /\ output' = decompressed_text'
                   /\ Sha256(output'[1]) = HashLine(container[1])]_vars

C4_Witness ==
    /\ op = "decompress"
    /\ result = "IntegrityError"
    /\ output # <<>>
    /\ decompressed_text # output

\* C5: after _build_heap, _merge_nodes and _make_codes_helper on a non-empty
\* frequency table the code table has exactly one code per symbol of the
\* table, and no symbol's code is a prefix of (or equal to) another's.
C5_PrefixFree ==
    op = "make_codes"
        => /\ Len(codes) = Len(frequency)
           /\ DictKeys(codes) = DictKeys(frequency)
           /\ \A i, j \in DOMAIN codes :
                  i # j => (codes[i][1] # codes[j][1] /\ ~IsPrefix(codes[i][2], codes[j][2]))

C5_Witness ==
    /\ op = "make_codes"
    /\ Len(frequency) = 4
    /\ \E i, j \in DOMAIN codes : Len(codes[i][2]) = 1 /\ Len(codes[j][2]) = 3

\* C6: for a table of two or more symbols the sum of count * code length is
\* the least such sum over all binary code trees, and the reference table
\* {a:5, b:9, c:12, d:13, e:16, f:45} gets code lengths 4, 4, 3, 3, 3, 1.
C6_Optimal ==
    (op = "make_codes" /\ Len(frequency) >= 2)
        => /\ WeightedLength(frequency, codes, 1) = OptimalCost(frequency, DOMAIN frequency)
           /\ frequency = ReferenceTable
                  => <<Len(DictGet(codes, "a")), Len(DictGet(codes, "b")),
                       Len(DictGet(codes, "c")), Len(DictGet(codes, "d")),
                       Len(DictGet(codes, "e")), Len(DictGet(codes, "f"))>>
                     = <<4, 4, 3, 3, 3, 1>>

C6_Witness ==
    /\ op = "make_codes"
    /\ frequency = ReferenceTable
    /\ WeightedLength(frequency, codes, 1) = 224

\* C7: the padded string has a length that is a multiple of 8, its first 8
\* bits hold the padding count p with 1 <= p <= 8 (8 for a stream whose
\* length is a multiple of 8), and dropping the first 8 bits and the last p
\* bits of the packed bytes gives back the encoded bit stream.
C7_PadUnpad ==
    /\ op \in {"pad", "bytes", "unpad"}
           => LET p == ParseBinary(SubSeq(padded_encoded_text, 1, 8))
              IN  /\ Len(padded_encoded_text) % 8 = 0
                  /\ p \in 1 .. 8
                  /\ Len(encoded_text) % 8 = 0 => p = 8
                  /\ Len(padded_encoded_text) = 8 + Len(encoded_text) + p
    /\ op = "unpad" => unpadded = encoded_text

C7_Witness ==
    /\ op = "unpad"
    /\ Len(encoded_text) = 8
    /\ byte_array[1] = 8
    /\ Len(byte_array) = 3

\* C8: decompress_file, rebuilding from the frequency table stored by a
\* successful compress_file, ends with the heap (the tree), the code table
\* and the reverse mapping that compress_file ended with.
C8_SameCodeTable ==
    [][(op \in {"compress", "flip"} /\ result = "ok" /\ op' = "decompress")
          => (codes' = codes /\ reverse_mapping' = reverse_mapping /\ heap' = heap)]_vars

C8_Witness ==
    /\ op = "decompress"
    /\ Len(frequency) = 4
    /\ \A i \in DOMAIN frequency : frequency[i][2] = 1
    /\ frequency[1][1] = "d"
    /\ Len(codes) = 4

\* C9: compress_file on an empty text ends in the IndexError raised at
\* root = self.heap[0]; the container file is left as it was.
C9_EmptyInputFails ==
    [][(op' = "compress" /\ source' = <<>>)
          => (result' = "IndexError" /\ container' = container)]_vars

C9_Witness ==
    /\ op = "compress"
    /\ source = <<>>
    /\ result = "IndexError"
    /\ container # <<>>
    /\ heap = <<>>

\* C10: whatever calls came before on the instance, a call ends with the
\* heap, code table, reverse mapping, result and file that the same call
\* gives on a new instance.
C10_FreshInstanceEquivalent ==
    /\ op = "compress"
           => LET f == CompressCall(FreshInstance, source)
              IN  /\ heap = f.heap
                  /\ codes = f.codes
                  /\ reverse_mapping = f.reverse_mapping
                  /\ result = f.result
                  /\ f.written # <<>> => container = f.written
    /\ op = "decompress"
           => LET f == DecompressCall(FreshInstance, container[1], <<>>)
              IN  /\ heap = f.heap
                  /\ codes = f.codes
                  /\ reverse_mapping = f.reverse_mapping
                  /\ result = f.result
                  /\ decompressed_text = f.decompressed_text
                  /\ f.result = "ok" => output = f.output

C10_Witness ==
    /\ op = "compress"
    /\ result = "ok"
    /\ output # <<>>
    /\ output # <<source>>
    /\ Len(frequency) = 3

====
